---- MODULE Spec2Model ----
(***************************************************************************)
(* Model of src/src/main.rs: a command-line HTTP client.                   *)
(*                                                                         *)
(* Spec follows main from the command line through Opts::parse, get/post   *)
(* and the client's send, up to the hand-over of the Response to           *)
(* print_resp.  RenderSpec follows print_resp from any received response.  *)
(*                                                                         *)
(* Text is modelled as sequences of one-character (or one-lexeme) strings, *)
(* so that splitting, formatting and highlighting are computed, not        *)
(* assumed.                                                                *)
(***************************************************************************)
EXTENDS Integers, Sequences, FiniteSets, TLC

VARIABLES pc, argv, opts, errMsg, request, response, mime, body, out

vars == <<pc, argv, opts, errMsg, request, response, mime, body, out>>

(* ------------------------------ bounds -------------------------------- *)

MaxTokLen == 3
MaxArgs == 2
MaxUrlLen == 2
MaxHeaders == 2

(* ----------------------------- text helpers --------------------------- *)

TokChars == {"a", "="}
UrlChars == {"s", ":"}

SeqsUpTo(S, n) == UNION {[1..k -> S] : k \in 0..n}

Tokens == SeqsUpTo(TokChars, MaxTokLen)
Urls == SeqsUpTo(UrlChars, MaxUrlLen)

None == [some |-> FALSE]
Some(v) == [some |-> TRUE, val |-> v]

Ok(v) == [ok |-> TRUE, val |-> v]
Err(m) == [ok |-> FALSE, err |-> m]

(* str::split("="): the segments between separators; a text without the   *)
(* separator (the empty text included) is one segment.                     *)
RECURSIVE Split(_)
Split(s) ==
    IF \A i \in 1..Len(s) : s[i] # "="
    THEN <<s>>
    ELSE LET i == CHOOSE j \in 1..Len(s) :
                      s[j] = "=" /\ \A k \in 1..(j - 1) : s[k] # "="
         IN <<SubSeq(s, 1, i - 1)>> \o Split(SubSeq(s, i + 1, Len(s)))

(* The closure err: anyhow!(format!("Failed to parse {}", s)).             *)
ParseErr(s) == <<"Failed to parse ">> \o s

(* A variant that supplies an empty value when the separator is missing.   *)
from_str_default_value(s) ==
    LET split == Split(s)
    IN Ok([key |-> split[1],
           value |-> IF Len(split) < 2 THEN <<>> ELSE split[2]])

(* KvPair::from_str: the first two items of the split iterator.            *)
from_str(s) ==
    LET split == Split(s)
    IN IF Len(split) < 1 THEN Err(ParseErr(s))
       ELSE IF Len(split) < 2 THEN Err(ParseErr(s))
       ELSE Ok([key |-> split[1], value |-> split[2]])

parse_kv_pair(s) == from_str(s)

(* Url::parse accepts a text that begins with a scheme: a letter, then     *)
(* scheme characters, then ':'.  Over UrlChars the only letter is "s".     *)
UrlParses(s) ==
    \E i \in 2..Len(s) : s[i] = ":" /\ \A k \in 1..(i - 1) : s[k] = "s"

UrlErr == <<"relative URL without a base">>

(* A variant that skips the Url parse.                                     *)
parse_url_unchecked(s) == Ok(s)

parse_url(s) == IF UrlParses(s) THEN Ok(s) ELSE Err(UrlErr)

(* ------------------------- command line (clap) ------------------------ *)

(* Opts::parse on `get <url>` / `post <url> [<token> ...]`: the url is     *)
(* validated by parse_url, then every body token by parse_kv_pair, in      *)
(* argument order; the first failure is reported and the process exits.    *)
Opts_parse(a) ==
    LET u == parse_url(a.url)
        kvs == [i \in 1..Len(a.tokens) |-> parse_kv_pair(a.tokens[i])]
        bad == {i \in 1..Len(a.tokens) : ~kvs[i].ok}
    IN IF ~u.ok THEN Err(u.err)
       ELSE IF bad # {}
       THEN Err(kvs[CHOOSE i \in bad : \A j \in bad : i <= j].err)
       ELSE Ok([subcmd |-> a.subcmd, url |-> u.val,
                body |-> [i \in 1..Len(a.tokens) |-> kvs[i].val]])

Argvs ==
    {[subcmd |-> "get", url |-> u, tokens |-> <<>>] : u \in Urls}
    \cup {[subcmd |-> "post", url |-> u, tokens |-> ts] :
              u \in Urls, ts \in SeqsUpTo(Tokens, MaxArgs)}

(* ------------------------------ responses ----------------------------- *)

NonAscii == "\\xFF"

JsonValue == <<"application", "/", "json">>
JsonUtf8Value == <<"application", "/", "json", ";", "charset=utf-8">>
PlainValue == <<"text", "/", "plain">>
GarbageValue == <<"garbage">>
OpaqueValue == <<NonAscii>>

HeaderPool ==
    {[name |-> "content-type", value |-> v] :
         v \in {JsonValue, JsonUtf8Value, PlainValue, GarbageValue, OpaqueValue}}
    \cup {[name |-> "server", value |-> <<"nginx">>]}

StatusCodes == {200, 404, 500}

Responses ==
    {[status |-> c, headers |-> hs] :
         c \in StatusCodes, hs \in SeqsUpTo(HeaderPool, MaxHeaders)}

Bodies ==
    { <<>>,
      <<"1">>,
      <<"{", "\"x\"", ":", "1", "}">>,
      <<"{", "\n", "  ", "\"x\"", ":", " ", "1", "\n", "}">>,
      <<"not", " ", "json">>,
      <<"not", "\n", "json">> }

(* ------------------------------- state -------------------------------- *)

Init ==
    /\ pc = "start"
    /\ argv \in Argvs
    /\ opts = None
    /\ errMsg = <<>>
    /\ request = None
    /\ response = None
    /\ mime = None
    /\ body = None
    /\ out = <<>>

(* main, line 73: Opts::parse() either yields the options or exits.        *)
OptsParse ==
    /\ pc = "start"
    /\ LET r == Opts_parse(argv)
       IN IF r.ok
          THEN /\ opts' = Some(r.val)
               /\ pc' = "main"
               /\ UNCHANGED errMsg
          ELSE /\ errMsg' = r.err
               /\ pc' = "exit_usage"
               /\ UNCHANGED opts
    /\ UNCHANGED <<argv, request, response, mime, body, out>>

(* A variant that keeps the value already stored under the key.            *)
insert_keep_first(m, k, v) ==
    [x \in (DOMAIN m) \cup {k} |-> IF x \in DOMAIN m THEN m[x] ELSE v]

(* HashMap::insert *)
insert(m, k, v) == [x \in (DOMAIN m) \cup {k} |-> IF x = k THEN v ELSE m[x]]

EmptyMap == [x \in {} |-> <<>>]

(* post, lines 89-92: the HashMap filled from args.body in order.          *)
RECURSIVE post_body(_, _)
post_body(m, kvs) ==
    IF kvs = <<>> THEN m
    ELSE post_body(insert(m, kvs[1].key, kvs[1].value), Tail(kvs))

get ==
    /\ pc = "main"
    /\ opts.val.subcmd = "get"
    /\ request' = Some([method |-> "GET", url |-> opts.val.url, json |-> None])
    /\ pc' = "send"
    /\ UNCHANGED <<argv, opts, errMsg, response, mime, body, out>>

post ==
    /\ pc = "main"
    /\ opts.val.subcmd = "post"
    /\ request' = Some([method |-> "POST", url |-> opts.val.url,
                        json |-> Some(post_body(EmptyMap, opts.val.body))])
    /\ pc' = "send"
    /\ UNCHANGED <<argv, opts, errMsg, response, mime, body, out>>

(* send().await returns the response head (what the head carries is       *)
(* followed from RenderInit; here it is a bare status) ...                 *)
SendOk ==
    /\ pc = "send"
    /\ \E r \in {x \in Responses : x.headers = <<>>} : response' = Some(r)
    /\ pc' = "print_resp"
    /\ UNCHANGED <<argv, opts, errMsg, request, mime, body, out>>

(* ... or a transport error, which `?` returns from main.                  *)
SendErr ==
    /\ pc = "send"
    /\ errMsg' = <<"error sending request">>
    /\ pc' = "exit_error"
    /\ UNCHANGED <<argv, opts, request, response, mime, body, out>>

Next == OptsParse \/ get \/ post \/ SendOk \/ SendErr

Spec == Init /\ [][Next]_vars

(* ------------------------------ rendering ----------------------------- *)

Blue == "\\e[34m"
Green == "\\e[32m"
Reset == "\\e[0m"
Esc == "\\e[48;38m"

(* StatusCode's Display: the code and its canonical reason.                *)
StatusText(c) ==
    CASE c = 200 -> "200 OK"
      [] c = 404 -> "404 Not Found"
      [] c = 500 -> "500 Internal Server Error"

(* print_status: the coloured "{version:?} {status}" and println!'s "\n"   *)
(* after the "\n" of the format string.                                    *)
print_status(r) ==
    <<Blue, "HTTP/1.1", " ", StatusText(r.status), Reset, "\n", "\n">>

(* print_headers: one "{name} => {value:?}" line per header, then an       *)
(* empty line.                                                             *)
RECURSIVE header_lines(_)
header_lines(hs) ==
    IF hs = <<>> THEN <<>>
    ELSE <<Green, hs[1].name, Reset, " => ", "\"">> \o hs[1].value
             \o <<"\"", "\n">> \o header_lines(Tail(hs))

print_headers(r) == header_lines(r.headers) \o <<"\n">>

(* HeaderMap::get: the first value stored under the name.                  *)
header_get(hs, n) ==
    LET idx == {i \in 1..Len(hs) : hs[i].name = n}
    IN IF idx = {} THEN None
       ELSE Some(hs[CHOOSE i \in idx : \A j \in idx : i <= j].value)

(* HeaderValue::to_str fails on bytes outside visible ASCII.               *)
to_str(v) == IF \E i \in 1..Len(v) : v[i] = NonAscii THEN Err("ToStrError") ELSE Ok(v)

IsName(x) == x \notin {"/", ";", NonAscii}

(* str::parse::<Mime>: type "/" subtype, then ";" parameter pairs.         *)
mime_parse(v) ==
    IF /\ Len(v) >= 3
       /\ IsName(v[1]) /\ v[2] = "/" /\ IsName(v[3])
       /\ (Len(v) - 3) % 2 = 0
       /\ \A i \in 4..Len(v) : IF i % 2 = 0 THEN v[i] = ";" ELSE IsName(v[i])
    THEN Ok([type |-> v[1], subtype |-> v[3],
             params |-> [i \in 1..((Len(v) - 3) \div 2) |-> v[3 + 2 * i]]])
    ELSE Err("FromStrError")

Panic == [panic |-> TRUE]
Returned(v) == [panic |-> FALSE, val |-> v]

(* get_content_type: both unwraps panic on Err.                            *)
get_content_type(r) ==
    LET h == header_get(r.headers, "content-type")
    IN IF ~h.some THEN Returned(None)
       ELSE IF ~to_str(h.val).ok THEN Panic
       ELSE IF ~mime_parse(to_str(h.val).val).ok THEN Panic
       ELSE Returned(Some(mime_parse(to_str(h.val).val).val))

APPLICATION_JSON == [type |-> "application", subtype |-> "json", params |-> <<>>]

(* LinesWithEndings: each line keeps its "\n".                             *)
RECURSIVE LinesWithEndings(_)
LinesWithEndings(s) ==
    IF s = <<>> THEN <<>>
    ELSE IF \A i \in 1..Len(s) : s[i] # "\n" THEN <<s>>
    ELSE LET i == CHOOSE j \in 1..Len(s) :
                      s[j] = "\n" /\ \A k \in 1..(j - 1) : s[k] # "\n"
         IN <<SubSeq(s, 1, i)>> \o LinesWithEndings(SubSeq(s, i + 1, Len(s)))

(* highlight + as_24_bit_terminal_escaped: every range of the line is      *)
(* written as a colour escape followed by the range's own text.            *)
RECURSIVE escaped(_)
escaped(line) ==
    IF line = <<>> THEN <<>>
    ELSE <<Esc, line[1]>> \o escaped(Tail(line))

RECURSIVE print_lines(_)
print_lines(ls) ==
    IF ls = <<>> THEN <<>>
    ELSE escaped(ls[1]) \o print_lines(Tail(ls))

(* str::lines: the lines without their endings.                            *)
RECURSIVE Lines(_)
Lines(s) ==
    IF s = <<>> THEN <<>>
    ELSE IF \A i \in 1..Len(s) : s[i] # "\n" THEN <<s>>
    ELSE LET i == CHOOSE j \in 1..Len(s) :
                      s[j] = "\n" /\ \A k \in 1..(j - 1) : s[k] # "\n"
         IN <<SubSeq(s, 1, i - 1)>> \o Lines(SubSeq(s, i + 1, Len(s)))

(* A variant that iterates with lines() and so loses the line endings.     *)
print_syntect_lines(s) == print_lines(Lines(s))

(* print_syntect: print! of every highlighted line; no newline is added.   *)
print_syntect(s) == print_lines(LinesWithEndings(s))

(* print_body: Mime equality compares the parameters too.                  *)
print_body(m, b) ==
    IF m.some /\ m.val = APPLICATION_JSON
    THEN print_syntect(b)
    ELSE b \o <<"\n">>

(* print_resp, line 100 *)
PrintStatus ==
    /\ pc = "print_resp"
    /\ out' = Append(out, [sec |-> "status", text |-> print_status(response.val)])
    /\ pc' = "print_headers"
    /\ UNCHANGED <<argv, opts, errMsg, request, response, mime, body>>

(* print_resp, line 101 *)
PrintHeaders ==
    /\ pc = "print_headers"
    /\ out' = Append(out, [sec |-> "headers", text |-> print_headers(response.val)])
    /\ pc' = "get_content_type"
    /\ UNCHANGED <<argv, opts, errMsg, request, response, mime, body>>

(* print_resp, line 103 *)
GetContentType ==
    /\ pc = "get_content_type"
    /\ LET r == get_content_type(response.val)
       IN IF r.panic
          THEN pc' = "panicked" /\ UNCHANGED mime
          ELSE pc' = "text" /\ mime' = r.val
    /\ UNCHANGED <<argv, opts, errMsg, request, response, body, out>>

(* print_resp, line 104: text().await reads the whole body ...             *)
TextOk ==
    /\ pc = "text"
    /\ \E b \in Bodies : body' = Some(b)
    /\ pc' = "print_body"
    /\ UNCHANGED <<argv, opts, errMsg, request, response, mime, out>>

(* ... or fails, and `?` returns the error up to main.                     *)
TextErr ==
    /\ pc = "text"
    /\ errMsg' = <<"error decoding response body">>
    /\ pc' = "exit_error"
    /\ UNCHANGED <<argv, opts, request, response, mime, body, out>>

(* print_resp, lines 105-106 *)
PrintBody ==
    /\ pc = "print_body"
    /\ out' = Append(out, [sec |-> "body", text |-> print_body(mime, body.val)])
    /\ pc' = "done"
    /\ UNCHANGED <<argv, opts, errMsg, request, response, mime, body>>

(* print_resp is entered with the response that send() returned to get.    *)
RenderArgv == [subcmd |-> "get", url |-> <<"s", ":">>, tokens |-> <<>>]

RenderInit ==
    /\ pc = "print_resp"
    /\ argv = RenderArgv
    /\ opts = Some(Opts_parse(RenderArgv).val)
    /\ errMsg = <<>>
    /\ request = Some([method |-> "GET", url |-> RenderArgv.url, json |-> None])
    /\ response \in {Some(r) : r \in Responses}
    /\ mime = None
    /\ body = None
    /\ out = <<>>

RenderNext ==
    PrintStatus \/ PrintHeaders \/ GetContentType \/ TextOk \/ TextErr \/ PrintBody

RenderSpec == RenderInit /\ [][RenderNext]_vars

(* ------------------------- vocabulary of the claims ------------------- *)

HasEq(t) == \E i \in 1..Len(t) : t[i] = "="

FirstEq(t) == CHOOSE i \in 1..Len(t) : t[i] = "=" /\ \A k \in 1..(i - 1) : t[k] # "="

BeforeFirstEq(t) == SubSeq(t, 1, FirstEq(t) - 1)

AfterFirstEq(t) == SubSeq(t, FirstEq(t) + 1, Len(t))

ArgsValid == UrlParses(argv.url) /\ \A i \in 1..Len(argv.tokens) : HasEq(argv.tokens[i])

(* The text a terminal shows: the output without the colour escapes.       *)
Visible(s) == SelectSeq(s, LAMBDA x : x \notin {Esc, Blue, Green, Reset})

Verbatim(b) == b \o <<"\n">>

Blank(x) == x \in {" ", "  ", "\n"}

RECURSIVE IsJsonValue(_)
IsJsonValue(s) ==
    \/ s = <<"1">>
    \/ s = <<"{", "}">>
    \/ /\ Len(s) >= 5
       /\ s[1] = "{" /\ s[2] = "\"x\"" /\ s[3] = ":" /\ s[Len(s)] = "}"
       /\ IsJsonValue(SubSeq(s, 4, Len(s) - 1))

ValidJson(b) == IsJsonValue(SelectSeq(b, LAMBDA x : ~Blank(x)))

Indent(n) == [i \in 1..n |-> "  "]

(* Two-space pretty printing of a compact JSON value.                      *)
RECURSIVE PrettyValue(_, _)
PrettyValue(s, n) ==
    IF Len(s) >= 5
    THEN <<"{", "\n">> \o Indent(n + 1) \o <<"\"x\"", ":", " ">>
             \o PrettyValue(SubSeq(s, 4, Len(s) - 1), n + 1)
             \o <<"\n">> \o Indent(n) \o <<"}">>
    ELSE s

Pretty(b) == PrettyValue(SelectSeq(b, LAMBDA x : ~Blank(x)), 0)

ContentTypeHeader == header_get(response.val.headers, "content-type")

ValidMediaType(v) == to_str(v).ok /\ mime_parse(v).ok

Sections == [i \in 1..Len(out) |-> out[i].sec]

Ended == pc \in {"done", "panicked", "exit_error"}

(* ------------------------------- claims ------------------------------- *)

(* C1: for every token k=v with k non-empty, the parsed pair has key = the *)
(* text before the first '=' and value = the whole remainder after it,     *)
(* further '=' characters included.                                        *)
C1_ValueIsWholeRemainder ==
    opts.some =>
        \A i \in 1..Len(argv.tokens) :
            BeforeFirstEq(argv.tokens[i]) # <<>> =>
                /\ opts.val.body[i].key = BeforeFirstEq(argv.tokens[i])
                /\ opts.val.body[i].value = AfterFirstEq(argv.tokens[i])

(* C2: a token without '=' (the empty token included) is never parsed to a *)
(* pair: the parser returns an error whose message carries the token       *)
(* verbatim, and that error ends the run when it is the first bad token.   *)
C2_NoSeparatorIsError ==
    \A i \in 1..Len(argv.tokens) :
        LET t == argv.tokens[i]
        IN ~HasEq(t) =>
              /\ ~parse_kv_pair(t).ok
              /\ SubSeq(parse_kv_pair(t).err, 2, Len(parse_kv_pair(t).err)) = t
              /\ (/\ pc # "start"
                  /\ UrlParses(argv.url)
                  /\ \A j \in 1..(i - 1) : HasEq(argv.tokens[j]))
                     => /\ pc = "exit_usage"
                        /\ ~opts.some
                        /\ errMsg = <<"Failed to parse ">> \o t

C2_Witness ==
    /\ pc = "exit_usage"
    /\ \E i \in 1..Len(argv.tokens) : argv.tokens[i] = <<>>
    /\ errMsg = <<"Failed to parse ">>

(* C3: when the URL or any body token fails to parse, the run ends in      *)
(* argument validation and no request is ever sent; a request is sent only *)
(* after validation has produced the options.                              *)
C3_NoSendOnInvalidArgs ==
    /\ ~ArgsValid => request = None /\ response = None /\ pc \in {"start", "exit_usage"}
    /\ request.some => opts.some

C3_Witness ==
    /\ pc = "exit_usage"
    /\ request = None
    /\ ~UrlParses(argv.url)

(* C4: with the Content-Type header absent or not a valid media type, the  *)
(* renderer does not crash, determines 'no content type' and emits the     *)
(* body verbatim.                                                          *)
C4_BadContentTypeIsNone ==
    (response.some /\ (~ContentTypeHeader.some \/ ~ValidMediaType(ContentTypeHeader.val)))
        => /\ pc # "panicked"
           /\ pc \in {"text", "print_body", "done"} => mime = None
           /\ pc = "done" => out[3].text = Verbatim(body.val)

(* C5: the JSON renderer is selected exactly when type/subtype is          *)
(* application/json, whatever the parameters; otherwise the body is        *)
(* emitted verbatim.                                                       *)
C5_JsonIffEssence ==
    pc = "done" =>
        LET v == ContentTypeHeader
            json == v.some /\ SubSeq(v.val, 1, 3) = JsonValue
        IN IF json THEN out[3].text = print_syntect(body.val)
                   ELSE out[3].text = Verbatim(body.val)

(* C6: a valid JSON body under application/json is emitted pretty-printed  *)
(* (re-serialized, indented, multi-line), not as received.                 *)
C6_JsonIsPrettyPrinted ==
    (pc = "done" /\ mime = Some(APPLICATION_JSON) /\ ValidJson(body.val))
        => Visible(out[3].text) = Pretty(body.val)

C8_AllSectionsInOrder ==
    (response.some /\ Ended) => Sections = <<"status", "headers", "body">>

(* C9: the body built by post maps exactly the distinct keys of the pairs, *)
(* each to the value of its last occurrence; no pairs give the empty map.  *)
C9_LastWriteWins ==
    (request.some /\ request.val.method = "POST") =>
        LET m == request.val.json.val
            kvs == opts.val.body
        IN /\ request.val.json.some
           /\ DOMAIN m = {kvs[i].key : i \in 1..Len(kvs)}
           /\ \A i \in 1..Len(kvs) :
                  (\A j \in (i + 1)..Len(kvs) : kvs[j].key # kvs[i].key)
                      => m[kvs[i].key] = kvs[i].value
           /\ kvs = <<>> => m = EmptyMap

C9_Witness ==
    /\ request.some
    /\ request.val.method = "POST"
    /\ \E i, j \in 1..Len(opts.val.body) :
           /\ i < j
           /\ opts.val.body[i].key = opts.val.body[j].key
           /\ opts.val.body[i].value # opts.val.body[j].value

(* C10: nothing is printed before the whole response, body included, has   *)
(* been received, so a failed body read leaves no output behind.           *)
C10_NoOutputBeforeBody ==
    /\ out # <<>> => body.some
    /\ (pc = "exit_error" /\ response.some) => out = <<>>

====
